---- MODULE Spec2Model ----
(***************************************************************************)
(* clstorage.js: a wrapper around chrome.storage.local with a leveled      *)
(* logger.  The state is the two logging variables of the module, the      *)
(* contents of the host store, and the calls that are suspended at their   *)
(* `await`.  Every exported function is one action up to its await (or up  *)
(* to its return, when it does not reach the store) and one action for the *)
(* continuation that runs when the store's promise settles.                *)
(***************************************************************************)
EXTENDS Integers, Sequences, FiniteSets, Bags, TLC

VARIABLES
    _loggingLevel,  \* let _loggingLevel
    _isLogging,     \* let _isLogging
    store,          \* contents of chrome.storage.local: key -> value or Absent
    pending,        \* bag of calls suspended at their await
    lastWrite,      \* history: per key, the last successful mutation
    ev              \* history: the step just taken (call, records, result)

vars == <<_loggingLevel, _isLogging, store, pending, lastWrite, ev>>

(* ------------------------------ bounds --------------------------------- *)

\* Number of storage calls that may be suspended at their await at the same
\* time.  With 1 the calls of a script are awaited one after the other, as in
\* the usage example; setLevel and setLogging run between a call's two halves
\* in either case.
MaxInFlight == 1

(* ------------------------------ LogLevel ------------------------------- *)

TRACE == 0
DEBUG == 1
INFO == 2
WARN == 3
ERROR == 4
FATAL == 5
OFF == 6
UNKNOWN == 9

\* Level names handed to setLevel; the last two are not names of a level.
LevelNames == {"TRACE", "DEBUG", "INFO", "WARN", "ERROR", "FATAL", "OFF",
               "debug", "VERBOSE"}
\* The names the storage scenarios switch between.
FewLevelNames == {"INFO", "OFF"}

(* ------------------------------ JS values ------------------------------ *)
\* A JS value is a string: "s:<text>" is the JS string <text>, the others
\* are the values null, undefined, true and false.

JsNull == "null"
JsUndefined == "undefined"
JsTrue == "true"
JsFalse == "false"
EmptyString == "s:"
QuotePair == "s:''"
UndefinedString == "s:undefined"

\* Values handed to storeConfig.
Values == {"s:v1", EmptyString, JsNull}
FewValues == {"s:v1"}

Keys == {"key1", "key2"}
KeyLists == {<< >>, <<"key2", "key1">>}

\* The key argument of a call: null, a string, an array of strings, a number
\* or a plain object.
NullArg == [t |-> "null", k |-> "", ks |-> << >>]
NumArg == [t |-> "number", k |-> "", ks |-> << >>]
ObjArg == [t |-> "object", k |-> "", ks |-> << >>]
StrArg(k) == [t |-> "string", k |-> k, ks |-> << >>]
ArrArg(ks) == [t |-> "array", k |-> "", ks |-> ks]
NoArg == [t |-> "none", k |-> "", ks |-> << >>]

KeyArgs == {NullArg, ObjArg} \cup {StrArg(k) : k \in Keys}
             \cup {ArrArg(ks) : ks \in KeyLists}
FewKeyArgs == {NullArg, NumArg, StrArg("key1"), ArrArg(<<"key1">>)}

\* typeof key
TypeOf(key) == IF key.t \in {"null", "array", "object"} THEN "object" ELSE key.t

\* key !== null && typeof key === 'string'
IsStringKey(key) == key.t # "null" /\ TypeOf(key) = "string"

\* Faulty variant: the prototype test is left out, any non-null object passes.
IsObjectKey(key) == key.t # "null" /\ TypeOf(key) = "object"

\* key !== null && typeof key === 'object' && Object.getPrototypeOf(key) === Array.prototype
IsArrayKey(key) == key.t # "null" /\ TypeOf(key) = "object" /\ key.t = "array"

\* key === null
IsNullKey(key) == key.t = "null"

Range(s) == {s[i] : i \in 1..Len(s)}

(* ------------------------------ the store ------------------------------ *)

Absent == "absent"
\* lastWrite[k]: the value given to the last successful storeConfig(k, ..),
\* Removed after a successful removeConfig(k), NoWrite initially and after a
\* successful removeConfigs or clearConfigs that covers k.
Removed == "removed"
NoWrite == "none"
EmptyMap == [k \in {} |-> Absent]

\* chrome.storage.local.get(keys): the entries of the requested keys that exist
StorageGet(st, ks) == [k \in {x \in ks : st[x] # Absent} |-> st[k]]
\* chrome.storage.local.set({[key]: value})
StorageSet(st, k, v) == [st EXCEPT ![k] = v]
\* chrome.storage.local.remove(keys)
StorageRemove(st, ks) == [k \in Keys |-> IF k \in ks THEN Absent ELSE st[k]]
\* chrome.storage.local.clear()
StorageClear == [k \in Keys |-> Absent]

\* value[key] on the object get() resolved with
Lookup(value, key) == IF key \in DOMAIN value THEN value[key] ELSE JsUndefined

(* ------------------------------ results -------------------------------- *)
\* What a call returns: a JS value or a mapping (an object of entries).

ValRes(v) == [t |-> "value", v |-> v, m |-> EmptyMap]
MapRes(m) == [t |-> "mapping", v |-> "", m |-> m]
NoRes == [t |-> "none", v |-> "", m |-> EmptyMap]

(* ------------------------------ _logger -------------------------------- *)

Rec(sev, msg, name, rank) == [sev |-> sev, msg |-> msg, name |-> name, rank |-> rank]
Msg(sev, msg) == Rec(sev, msg, "", 0)

\* Faulty variant: the gate forgets _isLogging.
LoggerWritesAnyFlag(sev, level, isLogging) == level <= sev

\* Faulty variant: the gate compares with < in place of <=.
LoggerWritesStrictlyAbove(sev, level, isLogging) == level < sev /\ isLogging

\* The gate of each function _logger() builds: severity sev is written when
\* _loggingLevel <= LogLevel.<sev> && _isLogging
LoggerWrites(sev, level, isLogging) == level <= sev /\ isLogging

\* The records written by a run of log sites under one logging state.
Written(sites, level, isLogging) ==
    SelectSeq(sites, LAMBDA r : LoggerWrites(r.sev, level, isLogging))

(* ------------------------- the logging facet --------------------------- *)

\* Faulty variant: an unrecognised name falls back to OFF.
ConvertDefaultOff(string) ==
    IF string = "TRACE" THEN TRACE
    ELSE IF string = "DEBUG" THEN DEBUG
    ELSE IF string = "INFO" THEN INFO
    ELSE IF string = "WARN" THEN WARN
    ELSE IF string = "ERROR" THEN ERROR
    ELSE IF string = "FATAL" THEN FATAL
    ELSE OFF

\* function _convertStringIntoLevel(string)
_convertStringIntoLevel(string) ==
    IF string = "TRACE" THEN TRACE
    ELSE IF string = "DEBUG" THEN DEBUG
    ELSE IF string = "INFO" THEN INFO
    ELSE IF string = "WARN" THEN WARN
    ELSE IF string = "ERROR" THEN ERROR
    ELSE IF string = "FATAL" THEN FATAL
    ELSE IF string = "OFF" THEN OFF
    ELSE UNKNOWN

\* The _logger().info call setLevel reaches, if any.
SetLevelSites(level, isLogging) ==
    IF _convertStringIntoLevel(level) <= OFF /\ isLogging
    THEN <<Rec(INFO, "Log level was set to", level, _convertStringIntoLevel(level))>>
    ELSE IF _convertStringIntoLevel(level) > OFF /\ isLogging
    THEN <<Rec(INFO, "Log level was set to", "UNKNOWN", _convertStringIntoLevel(level))>>
    ELSE << >>

\* Faulty variant: the transition record is attempted on every call.
SetLoggingSitesAlways(isLogging, wasLogging) ==
    IF isLogging = TRUE
    THEN <<Msg(INFO, "Enabled clstorage logging.")>>
    ELSE <<Msg(INFO, "Disabled clstorage logging.")>>

\* The _logger().info call setLogging reaches, if any.
SetLoggingSites(isLogging, wasLogging) ==
    IF isLogging = TRUE /\ ~wasLogging
    THEN <<Msg(INFO, "Enabled clstorage logging.")>>
    ELSE IF isLogging # TRUE /\ wasLogging
    THEN <<Msg(INFO, "Disabled clstorage logging.")>>
    ELSE << >>

\* The step just taken.  level and logging are the logging state the step's
\* log sites were evaluated under.
Event(op, phase, key, value, issued, ok, res, sites, recs, traced) ==
    [op |-> op, phase |-> phase, key |-> key, value |-> value,
     issued |-> issued, ok |-> ok, res |-> res, sites |-> sites, recs |-> recs,
     traced |-> traced, level |-> _loggingLevel, logging |-> _isLogging]

\* export async function setLevel(level)
SetLevel(level) ==
    LET sites == SetLevelSites(level, _isLogging)
    IN  /\ _loggingLevel' = _convertStringIntoLevel(level)
        /\ ev' = Event("setLevel", "return", NoArg, level, FALSE, FALSE,
                       ValRes(JsTrue), sites,
                       Written(sites, _loggingLevel, _isLogging), FALSE)
        /\ UNCHANGED <<_isLogging, store, pending, lastWrite>>

\* export async function setLogging(isLogging)
SetLogging(isLogging) ==
    LET sites == SetLoggingSites(isLogging, _isLogging)
    IN  /\ _isLogging' = isLogging
        /\ ev' = Event("setLogging", "return", NoArg,
                       IF isLogging THEN JsTrue ELSE JsFalse, FALSE, FALSE,
                       ValRes(JsTrue), sites,
                       Written(sites, _loggingLevel, _isLogging), FALSE)
        /\ UNCHANGED <<_loggingLevel, store, pending, lastWrite>>

(* ------------------------- the storage facet --------------------------- *)

\* let result = 'undefined' (readConfig, readConfigs)
ReadInitial == ValRes(UndefinedString)
\* let result = false (storeConfig, removeConfig, removeConfigs, clearConfigs)
WriteInitial == ValRes(JsFalse)

\* Faulty variant: only the empty string is replaced, null is stored as null.
NormaliseEmptyOnly(value) == IF value = EmptyString THEN QuotePair ELSE value

\* if(value === '' || value === null){ value = '\'\'' }
NormaliseValue(value) ==
    IF value = EmptyString \/ value = JsNull THEN QuotePair ELSE value

\* Faulty variant: the result is assigned whether or not the promise is fulfilled.
SettledRegardless(initial, ok, success) == success

\* store.op(...).then(() => { result = success }).catch(() => {}): the
\* assignment runs only when the store's promise is fulfilled.
Settled(initial, ok, success) == IF ok THEN success ELSE initial

\* Faulty variant: readConfig hands back the whole object get() resolved with.
ReadConfigResultWhole(value, key) == MapRes(value)

\* result = value[key] (readConfig)
ReadConfigResult(value, key) == ValRes(Lookup(value, key))

\* Faulty variant: the string branch of readConfigs returns value[key].
ReadConfigsResultByKey(value, key) ==
    IF IsStringKey(key) THEN ValRes(Lookup(value, key.k)) ELSE MapRes(value)

\* result = value (readConfigs, all three branches)
ReadConfigsResult(value, key) == MapRes(value)

\* The keys readConfigs asks the store for.
RequestedKeys(key) ==
    IF IsArrayKey(key) THEN Range(key.ks)
    ELSE IF IsStringKey(key) THEN {key.k}
    ELSE Keys

\* Whether readConfigs / removeConfigs reach a branch that calls the store.
ReadConfigsCallsStore(key) == IsArrayKey(key) \/ IsStringKey(key) \/ IsNullKey(key)
RemoveConfigsCallsStore(key) == IsArrayKey(key) \/ IsStringKey(key)

\* A call suspended at its await: value is what goes to the store, given is
\* the value the caller passed, traced tells whether the call's trace record
\* was written on entry.
Request(op, key, value, given, traced) ==
    [op |-> op, key |-> key, value |-> value, given |-> given, traced |-> traced]

TraceSite(op) == <<Msg(TRACE, op)>>

\* The part of a storage function before its await: the trace record, the
\* argument check, and either the store call (the function suspends) or the
\* return of the initial result.
Enter(op, key, given, callsStore, initial) ==
    LET sites == TraceSite(op)
        recs == Written(sites, _loggingLevel, _isLogging)
    IN  /\ callsStore => BagCardinality(pending) < MaxInFlight
        /\ pending' = IF callsStore
                      THEN pending (+) SetToBag({Request(op, key, NormaliseValue(given),
                                                         given, recs # << >>)})
                      ELSE pending
        /\ ev' = Event(op, "call", key, given, callsStore, FALSE,
                       IF callsStore THEN NoRes ELSE initial, sites, recs,
                       recs # << >>)
        /\ UNCHANGED <<_loggingLevel, _isLogging, store, lastWrite>>

\* The continuation after the await: the then-callback or the catch-callback
\* runs, and the function returns.  ok tells whether the store fulfilled or
\* rejected the promise.  The store's own work and the callback are one step:
\* nothing in the module reads the store between the two.  A rejected call
\* leaves the store as it was.
Leave(req, ok, res, okSev, okMsg, failMsg) ==
    LET sites == IF ok THEN <<Msg(okSev, okMsg)>> ELSE <<Msg(ERROR, failMsg)>>
    IN  /\ pending' = pending (-) SetToBag({req})
        /\ ev' = Event(req.op, "settle", req.key, req.given, TRUE, ok, res, sites,
                       Written(sites, _loggingLevel, _isLogging), req.traced)
        /\ UNCHANGED <<_loggingLevel, _isLogging>>

Suspended(op) == {r \in BagToSet(pending) : r.op = op}

\* export async function readConfig(key)
ReadConfigCall(key) ==
    Enter("readConfig", key, "", IsStringKey(key), ReadInitial)

ReadConfigResume(req, ok) ==
    /\ req \in Suspended("readConfig")
    /\ Leave(req, ok,
             Settled(ReadInitial, ok,
                     ReadConfigResult(StorageGet(store, {req.key.k}), req.key.k)),
             DEBUG, "current config was", "Failed to get config")
    /\ UNCHANGED <<store, lastWrite>>

\* export async function readConfigs(key)
ReadConfigsCall(key) ==
    Enter("readConfigs", key, "", ReadConfigsCallsStore(key), ReadInitial)

ReadConfigsResume(req, ok) ==
    /\ req \in Suspended("readConfigs")
    /\ Leave(req, ok,
             Settled(ReadInitial, ok,
                     ReadConfigsResult(StorageGet(store, RequestedKeys(req.key)), req.key)),
             DEBUG, "current configs were", "Failed to get configs")
    /\ UNCHANGED <<store, lastWrite>>

\* export async function storeConfig(key, value)
StoreConfigCall(key, value) ==
    Enter("storeConfig", key, value, IsStringKey(key), WriteInitial)

StoreConfigResume(req, ok) ==
    /\ req \in Suspended("storeConfig")
    /\ Leave(req, ok, Settled(WriteInitial, ok, ValRes(JsTrue)),
             INFO, "config was newly set to", "Failed to set config")
    /\ store' = IF ok THEN StorageSet(store, req.key.k, req.value) ELSE store
    /\ lastWrite' = IF ok THEN [lastWrite EXCEPT ![req.key.k] = req.given] ELSE lastWrite

\* export async function removeConfig(key)
RemoveConfigCall(key) ==
    Enter("removeConfig", key, "", IsStringKey(key), WriteInitial)

RemoveConfigResume(req, ok) ==
    /\ req \in Suspended("removeConfig")
    /\ Leave(req, ok, Settled(WriteInitial, ok, ValRes(JsTrue)),
             INFO, "config was removed.", "Failed to remove config")
    /\ store' = IF ok THEN StorageRemove(store, {req.key.k}) ELSE store
    /\ lastWrite' = IF ok THEN [lastWrite EXCEPT ![req.key.k] = Removed] ELSE lastWrite

\* export async function removeConfigs(key)
RemoveConfigsCall(key) ==
    Enter("removeConfigs", key, "", RemoveConfigsCallsStore(key), WriteInitial)

RemoveConfigsResume(req, ok) ==
    /\ req \in Suspended("removeConfigs")
    /\ Leave(req, ok, Settled(WriteInitial, ok, ValRes(JsTrue)),
             INFO, "configs were removed.", "Failed to remove configs")
    /\ store' = IF ok THEN StorageRemove(store, RequestedKeys(req.key)) ELSE store
    /\ lastWrite' = IF ok
                    THEN [k \in Keys |-> IF k \in RequestedKeys(req.key)
                                         THEN NoWrite ELSE lastWrite[k]]
                    ELSE lastWrite

\* export async function clearConfigs()
ClearConfigsCall ==
    Enter("clearConfigs", NoArg, "", TRUE, WriteInitial)

ClearConfigsResume(req, ok) ==
    /\ req \in Suspended("clearConfigs")
    /\ Leave(req, ok, Settled(WriteInitial, ok, ValRes(JsTrue)),
             INFO, "All configs and caches were cleared.", "Failed to clear all of data")
    /\ store' = IF ok THEN StorageClear ELSE store
    /\ lastWrite' = IF ok THEN [k \in Keys |-> NoWrite] ELSE lastWrite

(* ------------------------------ the system ----------------------------- *)

\* The module has just been loaded: threshold OFF, logging disabled, no call
\* made yet.  The store is persistent, so it may already hold entries that
\* an earlier session wrote; lastWrite starts as the history of that session.
Init ==
    /\ _loggingLevel = OFF
    /\ _isLogging = FALSE
    /\ lastWrite \in [Keys -> {NoWrite, "s:v1"}]
    /\ store = [k \in Keys |-> IF lastWrite[k] = NoWrite THEN Absent ELSE lastWrite[k]]
    /\ pending = EmptyBag
    /\ ev = [op |-> "load", phase |-> "return", key |-> NoArg, value |-> "",
             issued |-> FALSE, ok |-> FALSE, res |-> NoRes, sites |-> << >>,
             recs |-> << >>, traced |-> FALSE, level |-> OFF, logging |-> FALSE]

\* Any call a content script can make, or any continuation the store can
\* schedule, with the arguments drawn from the given sets.
Step(levels, keys, values) ==
    \/ \E level \in levels : SetLevel(level)
    \/ \E isLogging \in BOOLEAN : SetLogging(isLogging)
    \/ \E key \in keys : ReadConfigCall(key)
    \/ \E req \in BagToSet(pending), ok \in BOOLEAN : ReadConfigResume(req, ok)
    \/ \E key \in keys : ReadConfigsCall(key)
    \/ \E req \in BagToSet(pending), ok \in BOOLEAN : ReadConfigsResume(req, ok)
    \/ \E key \in keys, value \in values : StoreConfigCall(key, value)
    \/ \E req \in BagToSet(pending), ok \in BOOLEAN : StoreConfigResume(req, ok)
    \/ \E key \in keys : RemoveConfigCall(key)
    \/ \E req \in BagToSet(pending), ok \in BOOLEAN : RemoveConfigResume(req, ok)
    \/ \E key \in keys : RemoveConfigsCall(key)
    \/ \E req \in BagToSet(pending), ok \in BOOLEAN : RemoveConfigsResume(req, ok)
    \/ ClearConfigsCall
    \/ \E req \in BagToSet(pending), ok \in BOOLEAN : ClearConfigsResume(req, ok)

\* Storage scenarios: every key argument and value, two thresholds.
Next == Step(FewLevelNames, KeyArgs, Values)
Spec == Init /\ [][Next]_vars

\* Logging scenarios: every level name, one key.
LogNext == Step(LevelNames, FewKeyArgs, FewValues)
LogSpec == Init /\ [][LogNext]_vars

(* ------------------------------ properties ----------------------------- *)

\* The step just taken is the continuation of op, resp. its part before the await.
Resumed(op) == ev.op = op /\ ev.phase = "settle"
Entered(op) == ev.op = op /\ ev.phase = "call"
StorageOps == {"readConfig", "readConfigs", "storeConfig", "removeConfig",
               "removeConfigs", "clearConfigs"}
ReadOps == {"readConfig", "readConfigs"}
StorageStep == ev.op \in StorageOps

\* The value a key holds according to the history of successful mutations.
Holds(k) == lastWrite[k] \notin {NoWrite, Removed}
HeldValue(k) == IF lastWrite[k] \in {EmptyString, JsNull} THEN QuotePair ELSE lastWrite[k]

\* C1: round trip.  When readConfig(k) succeeds and the last successful
\* mutation touching k was storeConfig(k, v) with v neither '' nor null,
\* readConfig returns exactly v.
C1_RoundTrip ==
    (/\ Resumed("readConfig") /\ ev.ok
     /\ Holds(ev.key.k)
     /\ lastWrite[ev.key.k] \notin {EmptyString, JsNull})
    => (ev.res.t = "value" /\ ev.res.v = lastWrite[ev.key.k])

C1_Witness ==
    /\ Resumed("readConfig") /\ ev.ok
    /\ lastWrite[ev.key.k] = "s:v1"
    /\ ev.res.v = "s:v1"

\* C2: value normalisation.  A successful storeConfig(k, '') or
\* storeConfig(k, null) leaves the two-character string '' under k and any
\* other value unchanged; a following successful readConfig(k) returns that
\* two-character string, never the empty string or null.
C2_Normalisation ==
    /\ (Resumed("storeConfig") /\ ev.ok)
       => store[ev.key.k] = (IF ev.value = EmptyString \/ ev.value = JsNull
                             THEN QuotePair ELSE ev.value)
    /\ (Resumed("readConfig") /\ ev.ok /\ lastWrite[ev.key.k] \in {EmptyString, JsNull})
       => (ev.res.t = "value" /\ ev.res.v = QuotePair
           /\ ev.res.v # EmptyString /\ ev.res.v # JsNull)

C2_Witness ==
    /\ Resumed("readConfig") /\ ev.ok
    /\ lastWrite["key1"] = JsNull /\ lastWrite["key2"] = EmptyString
    /\ ev.key.k = "key1"
    /\ ev.res.v = QuotePair

\* C3: after a successful removeConfig(k) with no later write of k, a
\* successful readConfig(k) returns the unset marker, the value readConfig
\* is initialised with and returns when the key is invalid or the store fails.
C3_RemovedReadsUnsetMarker ==
    (Resumed("readConfig") /\ ev.ok /\ lastWrite[ev.key.k] = Removed)
    => (ev.res.t = "value" /\ ev.res.v = UndefinedString)

\* The keys a readConfigs argument names.
Named(key) ==
    CASE key.t = "null" -> Keys
      [] key.t = "string" -> {key.k}
      [] key.t = "array" -> {key.ks[i] : i \in DOMAIN key.ks}
      [] OTHER -> {}

Sentinel(op) == IF op \in ReadOps THEN UndefinedString ELSE JsFalse

\* C5: failure absorption.  When the store call of any of the six storage
\* functions rejects, the function returns its sentinel (false, or the unset
\* marker for the two reads), never true or a mapping, and writes exactly
\* one ERROR record when logging is enabled with a threshold at or below
\* ERROR, and no record otherwise.
C5_FailureAbsorbed ==
    (StorageStep /\ ev.phase = "settle" /\ ~ev.ok)
    => /\ ev.res.t = "value"
       /\ ev.res.v = Sentinel(ev.op)
       /\ Len(ev.recs) = (IF _isLogging /\ _loggingLevel <= ERROR THEN 1 ELSE 0)
       /\ \A i \in DOMAIN ev.recs : ev.recs[i].sev = ERROR

C5_Witness ==
    /\ Resumed("clearConfigs") /\ ~ev.ok
    /\ ev.res.v = JsFalse
    /\ Len(ev.recs) = 1 /\ ev.recs[1].sev = ERROR

\* The arguments the functions do not accept.
InvalidArg(op, key) ==
    CASE op \in {"readConfig", "storeConfig", "removeConfig"} -> key.t # "string"
      [] op = "readConfigs" -> key.t \notin {"null", "string", "array"}
      [] op = "removeConfigs" -> key.t \notin {"string", "array"}
      [] OTHER -> FALSE

\* C6: a call with an invalid argument makes no store call, leaves the store
\* and the suspended calls as they were, writes no ERROR record and returns
\* the sentinel.
C6_InvalidNeverReachesStore ==
    [][(ev'.phase = "call" /\ InvalidArg(ev'.op, ev'.key))
       => /\ ~ev'.issued
          /\ store' = store
          /\ pending' = pending
          /\ lastWrite' = lastWrite
          /\ \A i \in DOMAIN ev'.recs : ev'.recs[i].sev # ERROR
          /\ ev'.res.t = "value"
          /\ ev'.res.v = Sentinel(ev'.op)]_vars

C6_Witness ==
    /\ Entered("readConfigs") /\ ev.key = ObjArg
    /\ ~ev.issued
    /\ ev.res.v = UndefinedString
    /\ store["key1"] # Absent

\* C7: a record of severity s is written only if, at that moment, logging is
\* enabled and the threshold is at or below s; while logging is disabled no
\* storage step writes a record, also the continuation of a call that was
\* entered while logging was enabled.
C7_GateAtEmission ==
    /\ \A i \in DOMAIN ev.recs : ev.logging /\ ev.level <= ev.recs[i].sev
    /\ StorageStep => \A i \in DOMAIN ev.recs :
                          _isLogging /\ _loggingLevel <= ev.recs[i].sev
    /\ (StorageStep /\ ~_isLogging) => ev.recs = << >>

C7_Witness ==
    /\ StorageStep /\ ev.phase = "settle"
    /\ ev.traced
    /\ ~_isLogging
    /\ _loggingLevel = TRACE
    /\ ev.recs = << >>

\* C8: with the threshold DEBUG and logging enabled, storeConfig with a
\* string key writes no TRACE record on entry and one record on completion,
\* INFO on success and ERROR on failure; in every storage step a record of
\* severity s is written if and only if logging is enabled and the threshold
\* is at or below s.
C8_DebugThreshold ==
    /\ (Entered("storeConfig") /\ _loggingLevel = DEBUG /\ _isLogging)
       => ev.recs = << >>
    /\ (Resumed("storeConfig") /\ _loggingLevel = DEBUG /\ _isLogging)
       => /\ Len(ev.recs) = 1
          /\ ev.recs[1].sev = (IF ev.ok THEN INFO ELSE ERROR)
          /\ ev.recs[1].sev >= INFO
    /\ StorageStep
       => /\ Len(ev.sites) = 1
          /\ ev.recs = (IF _isLogging /\ _loggingLevel <= ev.sites[1].sev
                        THEN ev.sites ELSE << >>)

C8_Witness ==
    /\ Resumed("storeConfig") /\ ev.ok
    /\ _loggingLevel = DEBUG /\ _isLogging
    /\ ~ev.traced
    /\ Len(ev.recs) = 1 /\ ev.recs[1].sev = INFO

\* The rank of a level name.
RankOf(name) ==
    CASE name = "TRACE" -> 0 [] name = "DEBUG" -> 1 [] name = "INFO" -> 2
      [] name = "WARN" -> 3 [] name = "ERROR" -> 4 [] name = "FATAL" -> 5
      [] name = "OFF" -> 6 [] OTHER -> 9

\* The record setLevel(name) describes the new level with.
LevelRecord(name) ==
    [sev |-> INFO, msg |-> "Log level was set to",
     name |-> IF RankOf(name) = 9 THEN "UNKNOWN" ELSE name,
     rank |-> RankOf(name)]

\* C9 as stated: setLevel returns true, sets the threshold to the rank of
\* the name, and writes the record describing the new level whenever logging
\* is enabled at the call, for every previous threshold.
C9_RecordForEveryThreshold ==
    (ev.op = "setLevel")
    => /\ ev.res.v = JsTrue
       /\ _loggingLevel = RankOf(ev.value)
       /\ ev.logging => ev.recs = <<LevelRecord(ev.value)>>

\* C9 amended: setLevel returns true, sets the threshold to the rank of the
\* name, reaches its informational record whenever logging is enabled, and
\* the record describing the new level is written exactly when logging is
\* enabled and the previous threshold is at or below INFO.
C9_RecordUnderPreviousThreshold ==
    (ev.op = "setLevel")
    => /\ ev.res.v = JsTrue
       /\ _loggingLevel = RankOf(ev.value)
       /\ ev.sites = (IF ev.logging THEN <<LevelRecord(ev.value)>> ELSE << >>)
       /\ ev.recs = (IF ev.logging /\ ev.level <= INFO
                     THEN <<LevelRecord(ev.value)>> ELSE << >>)

C9_Witness ==
    /\ ev.op = "setLevel" /\ ev.value = "VERBOSE"
    /\ ev.logging /\ ev.level = DEBUG
    /\ _loggingLevel = 9
    /\ ev.recs = <<LevelRecord("VERBOSE")>>

\* C10: setLogging returns true and sets the flag to its argument; it
\* reaches its transition record only on a call that changes the flag, and
\* the record is written exactly when the flag was set and the threshold was
\* at or below INFO before the call.
C10_TransitionRecord ==
    (ev.op = "setLogging")
    => /\ ev.res.v = JsTrue
       /\ _isLogging = (ev.value = JsTrue)
       /\ ev.sites # << >> => _isLogging # ev.logging
       /\ ev.recs # << >> => _isLogging # ev.logging
       /\ ev.sites # << >>
          => ev.sites[1].msg = (IF _isLogging THEN "Enabled clstorage logging."
                                ELSE "Disabled clstorage logging.")
       /\ ev.recs = (IF ev.sites # << >> /\ ev.logging /\ ev.level <= INFO
                     THEN ev.sites ELSE << >>)

C10_Witness ==
    /\ ev.op = "setLogging" /\ ev.value = JsFalse
    /\ ev.logging /\ ev.level <= INFO
    /\ ~_isLogging
    /\ Len(ev.recs) = 1
    /\ ev.recs[1].msg = "Disabled clstorage logging."

====
